---- MODULE Spec2Model ----
(***************************************************************************)
(* PetLog: the presence tracker (src/src/event_tracker.py) and the event   *)
(* sink it writes to (DatabaseManager.log_event, src/src/database.py).     *)
(*                                                                         *)
(* Time is counted in whole seconds.  Confidences are counted in tenths    *)
(* (9 stands for 0.9).  A dict is a sequence of key/value records in       *)
(* insertion order, which is the order Python iterates it in.              *)
(*                                                                         *)
(* The camera service (src/src/camera_service.py) and the manager in front *)
(* of it (src/src/camera_manager.py) follow: its callers and its capture   *)
(* threads are processes that interleave, and a block run under            *)
(* `with self._lock` is one step taken when the lock is free, unless the   *)
(* block itself waits (stop() joins, cleanup() calls stop()).              *)
(*                                                                         *)
(* The detection service (src/src/detection_service.py) runs its loop on a *)
(* thread of its own: a tick fetches the latest frame, has the detector    *)
(* look at it and hands what was found to the tracker.  The streaming      *)
(* service (src/src/streaming_service.py) runs one generator per viewer.   *)
(* Each of the two is checked over the camera service, once with the       *)
(* camera left running and once with the lifecycle thread stopping it.     *)
(***************************************************************************)
EXTENDS Integers, Sequences, FiniteSets, TLC

VARIABLES
    now,              \* time.time() as read by the most recent call
    current_objects,  \* EventTracker.current_objects: class_name -> last_seen
    event_log,        \* rows of the event_log table, event_id = position
    call,             \* the most recent call: its inputs and its outcome
    sightings,        \* per class: <<first, last>> time a batch contained it,
                      \* <<>> when none did
    camera,           \* CameraService.camera: "None", or the handle's state
    is_running,       \* CameraService.is_running
    _capture_thread,  \* CameraService._capture_thread: "None" or a thread
    _lock,            \* holder of CameraService._lock, "None" when free
    _latest_frame,    \* CameraService._latest_frame: <<>> or <<frame>>
    _frame_counter,   \* CameraService._frame_counter
    threads,          \* per capture thread: where it is in _capture_loop and
                      \* the frame number it has read
    caller,           \* per calling thread: the call it is inside, or "idle"
    cam_call,         \* the camera call that returned most recently
    last_fetched,     \* per consumer: <<n>>, the frame number it last got from
                      \* get_latest_frame() since the last cleanup(), or <<>>
    _running,         \* DetectionService._running
    _detection_thread,\* DetectionService._detection_thread: "None" or the
                      \* thread
    detector,         \* the detection thread: where it is in _detection_loop
    leaked,           \* the thread a join that timed out has left behind
                      \* and how the tick it is in went
    det_call,         \* the DetectionService call that returned most recently
    is_streaming_active, \* StreamingService.is_streaming_active
    active_streams,   \* StreamingService.active_streams
    viewers,          \* per viewer: where it is in _create_stream, the value
                      \* of active_streams it has loaded, and what it has
                      \* seen happen since it started
    stream_call,      \* the StreamingService call that returned most recently
    frame_jpeg,       \* the encoded image handed to _format_frame: its bytes
    chunk             \* what _format_frame returned for it: bytes, <<>> before

tracker_vars == <<now, current_objects, event_log, call, sightings>>

camera_vars == <<camera, is_running, _capture_thread, _lock, _latest_frame,
                 _frame_counter, threads, caller, cam_call, last_fetched>>

detection_vars ==
    <<_running, _detection_thread, detector, leaked, det_call>>

streaming_vars == <<is_streaming_active, active_streams, viewers, stream_call>>

wire_vars == <<frame_jpeg, chunk>>

service_vars == <<detection_vars, streaming_vars, wire_vars>>

vars == <<tracker_vars, camera_vars, service_vars>>

----------------------------------------------------------------------------
(* Bounds of the model *)

MaxTime == 3

MaxBatch == 2

MaxEvents == 4

(* Program constants *)

timeout_seconds == 3

LEAVING_CONFIDENCE == 8

ENTERING_AREA == "entering_area"

LEAVING_AREA == "leaving_area"

(* Inputs *)

Classes == {"cat", "dog"}

Confidences == {5, 9}

(* The detections a batch is made of: a cat at either confidence, a dog at *)
(* the higher one.                                                         *)
Detections ==
    {d \in [class_name : Classes, confidence : Confidences] :
        d.class_name = "cat" \/ d.confidence = 9}

Batches == UNION {[1..n -> Detections] : n \in 0..MaxBatch}

Range(s) == {s[i] : i \in DOMAIN s}

(* The orders in which Python may iterate a set of strings. *)
Orders(S) == {o \in [1..Cardinality(S) -> S] : Range(o) = S}

----------------------------------------------------------------------------
(* dict operations on current_objects *)

Keys(d) == {d[i].class_name : i \in DOMAIN d}

Get(d, k) == d[CHOOSE i \in DOMAIN d : d[i].class_name = k].last_seen

SetItem(d, k, v) ==
    IF k \in Keys(d)
    THEN [i \in DOMAIN d |->
            IF d[i].class_name = k THEN [class_name |-> k, last_seen |-> v] ELSE d[i]]
    ELSE Append(d, [class_name |-> k, last_seen |-> v])

RECURSIVE DelItems(_, _)
DelItems(d, ks) ==
    IF d = <<>> THEN <<>>
    ELSE IF Head(d).class_name \in ks THEN DelItems(Tail(d), ks)
         ELSE <<Head(d)>> \o DelItems(Tail(d), ks)

----------------------------------------------------------------------------
(* The event sink.  s is the state of one running handler:                 *)
(*   current_objects, event_log: the tracker's dict and the table,         *)
(*   events_generated: the handler's local list,                           *)
(*   sink_calls: db.log_event calls made so far by this handler,           *)
(*   sink_failed: db.log_event raised sqlite3.Error,                       *)
(*   raised: an exception is propagating out of the handler.               *)
(* failAt names the db.log_event call of the handler that raises           *)
(* (0: none does).  The failed INSERT leaves no row.                       *)

log_event(s, event_type, class_name, confidence, failAt) ==
    IF s.sink_calls + 1 = failAt
    THEN [s EXCEPT !.sink_calls = @ + 1, !.sink_failed = TRUE]
    ELSE [s EXCEPT !.sink_calls = @ + 1,
                   !.event_log = Append(@, [event_type |-> event_type,
                                            class_name |-> class_name,
                                            confidence |-> confidence])]

(* _log_event has no try/except: the exception of db.log_event goes on to  *)
(* the caller.  Otherwise the event_id is the new row's place.             *)
_log_event(s, event_type, class_name, confidence, failAt) ==
    LET logged == log_event(s, event_type, class_name, confidence, failAt)
    IN [logged EXCEPT !.raised = logged.sink_failed]

(* The dict appended to events_generated (its timestamp, a clock reading   *)
(* nothing else reads, is left out).                                       *)
NewEvent(s, event_type, class_name, confidence) ==
    [event_id |-> Len(s.event_log), event_type |-> event_type,
     class_name |-> class_name, confidence |-> confidence]

----------------------------------------------------------------------------
(* process_detections, lines 76-85: the classes of the batch and the       *)
(* highest confidence of each.                                             *)

detected_classes(detections) == {detections[i].class_name : i \in DOMAIN detections}

RECURSIVE ConfidenceLoop(_, _)
ConfidenceLoop(detections, class_confidences) ==
    IF detections = <<>> THEN class_confidences
    ELSE LET detection == Head(detections)
             class_name == detection.class_name
         IN ConfidenceLoop(Tail(detections),
                IF class_name \notin DOMAIN class_confidences
                   \/ detection.confidence > class_confidences[class_name]
                THEN [c \in DOMAIN class_confidences \cup {class_name} |->
                        IF c = class_name THEN detection.confidence
                        ELSE class_confidences[c]]
                ELSE class_confidences)

class_confidences(detections) == ConfidenceLoop(detections, <<>>)

(* As EnteringStep, without the test `class_name not in current_objects`. *)
EnteringStepUnchecked(s, class_name, confidence, current_time, failAt) ==
    LET logged == _log_event(s, ENTERING_AREA, class_name, confidence, failAt)
    IN IF logged.raised THEN logged
       ELSE [logged EXCEPT
                !.events_generated =
                    Append(@, [event_id |-> Len(logged.event_log),
                               event_type |-> ENTERING_AREA,
                               class_name |-> class_name, confidence |-> confidence]),
                !.current_objects = SetItem(@, class_name, current_time)]

(* process_detections, lines 87-103: one pass of the loop over             *)
(* detected_classes, taken in the order `order`.                           *)
EnteringStep(s, class_name, confidence, current_time, failAt) ==
    LET logged == IF class_name \notin Keys(s.current_objects)
                  THEN _log_event(s, ENTERING_AREA, class_name, confidence, failAt)
                  ELSE s
        appended == IF class_name \notin Keys(s.current_objects) /\ ~logged.raised
                    THEN [logged EXCEPT !.events_generated =
                            Append(@, NewEvent(logged, ENTERING_AREA, class_name, confidence))]
                    ELSE logged
    IN IF appended.raised THEN appended
       ELSE [appended EXCEPT !.current_objects = SetItem(@, class_name, current_time)]

RECURSIVE EnteringLoop(_, _, _, _, _)
EnteringLoop(order, s, confidences, current_time, failAt) ==
    IF order = <<>> \/ s.raised THEN s
    ELSE EnteringLoop(Tail(order),
                      EnteringStep(s, Head(order), confidences[Head(order)],
                                   current_time, failAt),
                      confidences, current_time, failAt)

----------------------------------------------------------------------------
(* _check_for_leaving_objects, lines 129-152: one pass of the loop over    *)
(* current_objects.items().  r carries classes_to_remove as well.          *)

(* As HasTimedOut, one second early. *)
HasTimedOutEarly(last_seen, current_time) ==
    current_time - last_seen >= timeout_seconds - 1

HasTimedOut(last_seen, current_time) == current_time - last_seen >= timeout_seconds

LeavingStep(r, item, current_time, detected, failAt) ==
    IF item.class_name \in detected THEN r
    ELSE IF ~HasTimedOut(item.last_seen, current_time) THEN r
    ELSE LET logged == _log_event(r, LEAVING_AREA, item.class_name,
                                  LEAVING_CONFIDENCE, failAt)
         IN IF logged.raised THEN logged
            ELSE [logged EXCEPT
                    !.events_generated =
                        Append(@, NewEvent(logged, LEAVING_AREA, item.class_name,
                                           LEAVING_CONFIDENCE)),
                    !.classes_to_remove = Append(@, item.class_name)]

RECURSIVE LeavingLoop(_, _, _, _, _)
LeavingLoop(items, r, current_time, detected, failAt) ==
    IF items = <<>> \/ r.raised THEN r
    ELSE LeavingLoop(Tail(items),
                     LeavingStep(r, Head(items), current_time, detected, failAt),
                     current_time, detected, failAt)

(* The whole of _check_for_leaving_objects: its own events_generated, the  *)
(* loop, then the removals (which an exception skips).                     *)
_check_for_leaving_objects(s, current_time, detected, failAt) ==
    LET r0 == [current_objects |-> s.current_objects, event_log |-> s.event_log,
               events_generated |-> <<>>, sink_calls |-> s.sink_calls,
               sink_failed |-> FALSE, raised |-> FALSE, classes_to_remove |-> <<>>]
        r == LeavingLoop(s.current_objects, r0, current_time, detected, failAt)
    IN [current_objects |-> IF r.raised THEN r.current_objects
                            ELSE DelItems(r.current_objects, Range(r.classes_to_remove)),
        event_log |-> r.event_log,
        events_generated |-> r.events_generated,
        sink_calls |-> r.sink_calls,
        sink_failed |-> r.sink_failed,
        raised |-> r.raised]

(* As Extend, with the leaving events put first. *)
ExtendFront(events_generated, leaving_events) == leaving_events \o events_generated

(* events_generated.extend(leaving_events) *)
Extend(events_generated, leaving_events) == events_generated \o leaving_events

(* As process_detections, without the leaving check of lines 106-107. *)
EnteringOnly(s, detections, current_time, order, failAt) ==
    EnteringLoop(order, s, class_confidences(detections), current_time, failAt)

(* The whole of process_detections. *)
process_detections(s, detections, current_time, order, failAt) ==
    LET entered == EnteringLoop(order, s, class_confidences(detections),
                                current_time, failAt)
        left == _check_for_leaving_objects(entered, current_time,
                                           detected_classes(detections), failAt)
    IN IF entered.raised THEN entered
       ELSE [left EXCEPT !.events_generated =
                IF left.raised THEN <<>> ELSE Extend(entered.events_generated, @)]

----------------------------------------------------------------------------
(* The handlers as actions *)

Handler == [current_objects |-> current_objects, event_log |-> event_log,
            events_generated |-> <<>>, sink_calls |-> 0, sink_failed |-> FALSE,
            raised |-> FALSE]

Max(S) == CHOOSE x \in S : \A y \in S : y <= x

(* What a batch holds: per class in it, the highest confidence. *)
Best(detections) ==
    [c \in detected_classes(detections) |->
        Max({detections[i].confidence :
                i \in {j \in DOMAIN detections : detections[j].class_name = c}})]

Sighted(detections, t) ==
    [c \in Classes |->
        IF c \in detected_classes(detections)
        THEN <<IF sightings[c] = <<>> THEN t ELSE sightings[c][1], t>>
        ELSE sightings[c]]

(* The db.log_event calls a handler makes when none of them raises: the    *)
(* calls that can raise.                                                   *)
SinkCalls(s) == 0..s.sink_calls

(* A call at time t that ends in handler state s. *)
Outcome(op, detections, t, s) ==
    /\ Len(s.event_log) <= MaxEvents
    /\ now' = t
    /\ current_objects' = s.current_objects
    /\ event_log' = s.event_log
    /\ call' = [op |-> op, detected |-> detected_classes(detections),
                best |-> Best(detections),
                sink_failed |-> s.sink_failed, raised |-> s.raised,
                returned |-> IF s.raised THEN <<>> ELSE s.events_generated]

ProcessDetections(detections, t, order, failAt) ==
    /\ \E s \in {process_detections(Handler, detections, t, order, failAt)} :
            Outcome("process_detections", detections, t, s)
    /\ UNCHANGED sightings
    /\ UNCHANGED <<camera_vars, service_vars>>

CheckForLeavingObjects(t, failAt) ==
    /\ \E s \in {_check_for_leaving_objects(Handler, t, {}, failAt)} :
            Outcome("_check_for_leaving_objects", <<>>, t, s)
    /\ UNCHANGED sightings
    /\ UNCHANGED <<camera_vars, service_vars>>

(* The same calls, with the sightings of each class kept as well. *)
ProcessDetectionsSighted(detections, t, order, failAt) ==
    /\ \E s \in {process_detections(Handler, detections, t, order, failAt)} :
            Outcome("process_detections", detections, t, s)
    /\ sightings' = Sighted(detections, t)
    /\ UNCHANGED <<camera_vars, service_vars>>

----------------------------------------------------------------------------
(* CameraService and the CameraManager in front of it *)

(* The frame counter is followed up to MaxFrames. *)
MaxFrames == 3

(* The thread that runs the request handlers, all of them coroutines of    *)
(* one event loop: the lifecycle calls come from it.                       *)
Lifecycle == {"main"}

(* A thread that fetches frames: the detection loop, or a stream viewer.   *)
(* Each fetch is one step under the lock and changes nothing, so several   *)
(* such threads take the steps of one.                                     *)
Consumers == {"detector"}

Callers == Lifecycle \cup Consumers

(* The threads start() can create, each running _capture_loop. *)
Threads == {"CameraService-1", "CameraService-2"}

(* Optional[Frame]: <<>> is None.  A frame is told by its metadata. *)
Frame(frame_number) == <<[frame_number |-> frame_number]>>

Dead == [pc |-> "dead", frame_number |-> 0]

At(pc) == [pc |-> pc, frame_number |-> 0]

is_alive(t) == t # "None" /\ threads[t].pc # "dead"

(* The threads inside _capture_loop. *)
Alive == {t \in Threads : threads[t].pc # "dead"}

(* The Thread object line 124 creates: one that is not running. *)
NewThread == CHOOSE t \in Threads : threads[t].pc = "dead"

Returned(op, ok, frame, hardware) ==
    cam_call' = [op |-> op, ok |-> ok, frame |-> frame, hardware |-> hardware]

Becomes(c, pc) == caller' = [caller EXCEPT ![c] = pc]

initializeReopens(cam, open_ok, configure_ok) ==
    IF ~open_ok
    THEN [camera |-> "None", ok |-> FALSE, hardware |-> <<"Picamera2">>]
    ELSE IF ~configure_ok
    THEN [camera |-> "opened", ok |-> FALSE,
          hardware |-> <<"Picamera2", "configure">>]
    ELSE [camera |-> "configured", ok |-> TRUE,
          hardware |-> <<"Picamera2", "configure">>]

(* initialize(), lines 86-104: the handle it leaves, what it returns and   *)
(* the calls it made on the device.  An exception from configure() leaves  *)
(* the handle assigned at line 91 in place.                                *)
initialize(cam, open_ok, configure_ok) ==
    IF cam # "None"
    THEN [camera |-> cam, ok |-> TRUE, hardware |-> <<>>]
    ELSE IF ~open_ok
    THEN [camera |-> "None", ok |-> FALSE, hardware |-> <<"Picamera2">>]
    ELSE IF ~configure_ok
    THEN [camera |-> "opened", ok |-> FALSE,
          hardware |-> <<"Picamera2", "configure">>]
    ELSE [camera |-> "configured", ok |-> TRUE,
          hardware |-> <<"Picamera2", "configure">>]

Initialize(c, open_ok, configure_ok) ==
    /\ caller[c] = "idle"
    /\ _lock = "None"
    /\ LET r == initialize(camera, open_ok, configure_ok) IN
         /\ camera' = r.camera
         /\ Returned("initialize", r.ok, <<>>, r.hardware)
    /\ UNCHANGED <<is_running, _capture_thread, _lock, _latest_frame,
                   _frame_counter, threads, caller, last_fetched>>
    /\ UNCHANGED <<tracker_vars, service_vars>>

(* start(), lines 108-137, but for the thread it creates. *)
start(running, cam, hw_ok) ==
    IF running
    THEN [is_running |-> TRUE, ok |-> TRUE, hardware |-> <<>>,
          launched |-> FALSE]
    ELSE IF cam = "None"
    THEN [is_running |-> FALSE, ok |-> FALSE, hardware |-> <<>>,
          launched |-> FALSE]
    ELSE IF hw_ok
    THEN [is_running |-> TRUE, ok |-> TRUE, hardware |-> <<"start">>,
          launched |-> TRUE]
    ELSE [is_running |-> FALSE, ok |-> FALSE, hardware |-> <<"start">>,
          launched |-> FALSE]

StartCall(c, op, hw_ok) ==
    /\ _lock = "None"
    /\ LET r == start(is_running, camera, hw_ok) IN
         /\ is_running' = r.is_running
         /\ IF r.launched
            THEN /\ Alive # Threads
                 /\ threads' = [threads EXCEPT ![NewThread] = At("while")]
                 /\ _capture_thread' = NewThread
            ELSE UNCHANGED <<threads, _capture_thread>>
         /\ Returned(op, r.ok, <<>>, r.hardware)
    /\ Becomes(c, "idle")
    /\ UNCHANGED <<camera, _lock, _latest_frame, _frame_counter, last_fetched>>
    /\ UNCHANGED <<tracker_vars, service_vars>>

Start(c, hw_ok) ==
    /\ caller[c] = "idle"
    /\ StartCall(c, "start", hw_ok)

NeedsInitializeNever(cam) == FALSE

(* CameraManager.start, line 57 *)
NeedsInitialize(cam) == cam = "None"

(* CameraManager.start, lines 54-59 *)
ManagerStartBegin(c, open_ok, configure_ok) ==
    /\ caller[c] = "idle"
    /\ IF NeedsInitialize(camera)
       THEN /\ _lock = "None"
            /\ LET r == initialize(camera, open_ok, configure_ok) IN
                 /\ camera' = r.camera
                 /\ IF r.ok
                    THEN /\ Returned("CameraManager.start/initialize", TRUE,
                                     <<>>, r.hardware)
                         /\ Becomes(c, "CameraManager.start")
                    ELSE /\ Returned("CameraManager.start", FALSE, <<>>,
                                     r.hardware)
                         /\ UNCHANGED caller
       ELSE /\ Becomes(c, "CameraManager.start")
            /\ UNCHANGED <<camera, cam_call>>
    /\ UNCHANGED <<is_running, _capture_thread, _lock, _latest_frame,
                   _frame_counter, threads, last_fetched>>
    /\ UNCHANGED <<tracker_vars, service_vars>>

(* CameraManager.start, line 62 *)
ManagerStartFinish(c, hw_ok) ==
    /\ caller[c] = "CameraManager.start"
    /\ StartCall(c, "CameraManager.start", hw_ok)

(* stop(), lines 141-146: from here on the caller holds the lock. *)
StopBegin(c) ==
    /\ caller[c] = "idle"
    /\ _lock = "None"
    /\ IF ~is_running
       THEN /\ Returned("stop", TRUE, <<>>, <<>>)
            /\ UNCHANGED <<is_running, _lock, caller>>
       ELSE /\ is_running' = FALSE
            /\ _lock' = c
            /\ Becomes(c, "stop")
            /\ UNCHANGED cam_call
    /\ UNCHANGED <<camera, _capture_thread, _latest_frame, _frame_counter,
                   threads, last_fetched>>
    /\ UNCHANGED <<tracker_vars, service_vars>>

(* join(timeout=5.0), line 150, is over: the thread has ended, or it waits *)
(* at line 199 for the lock, which the caller of stop() holds until stop() *)
(* returns, and the five seconds run out with the thread alive.  (A tick   *)
(* takes a fraction of a second otherwise.)                                *)
JoinReturns ==
    \/ ~is_alive(_capture_thread)
    \/ threads[_capture_thread].pc = "store"

(* stop(), lines 149-158.  An exception from camera.stop() is caught and   *)
(* changes nothing here.                                                   *)
StopFinish(c) ==
    /\ caller[c] = "stop"
    /\ JoinReturns
    /\ _lock' = "None"
    /\ Becomes(c, "idle")
    /\ Returned("stop", TRUE, <<>>,
                IF camera # "None" THEN <<"stop">> ELSE <<>>)
    /\ UNCHANGED <<camera, is_running, _capture_thread, _latest_frame,
                   _frame_counter, threads, last_fetched>>
    /\ UNCHANGED <<tracker_vars, service_vars>>

(* cleanup(), lines 246-261.  When the service is running, cleanup() calls *)
(* stop() at line 249 with the lock held; stop() waits at line 141 for     *)
(* that lock, which is not reentrant: the caller stays at "cleanup".       *)
Cleanup(c, close_ok) ==
    /\ caller[c] = "idle"
    /\ _lock = "None"
    /\ IF is_running
       THEN /\ _lock' = c
            /\ Becomes(c, "cleanup")
            /\ UNCHANGED <<camera, _latest_frame, _frame_counter, cam_call,
                           last_fetched>>
       ELSE /\ IF camera # "None" /\ ~close_ok
               THEN UNCHANGED <<camera, _latest_frame, _frame_counter>>
               ELSE /\ camera' = "None"
                    /\ _latest_frame' = <<>>
                    /\ _frame_counter' = 0
            /\ Returned("cleanup", camera = "None" \/ close_ok, <<>>,
                        IF camera # "None" THEN <<"close">> ELSE <<>>)
            /\ last_fetched' = [k \in Consumers |-> <<>>]
            /\ UNCHANGED <<_lock, caller>>
    /\ UNCHANGED <<is_running, _capture_thread, threads>>
    /\ UNCHANGED <<tracker_vars, service_vars>>

(* A caller enters get_latest_frame(), line 218. *)
CallGetLatestFrame(c) ==
    /\ caller[c] = "idle"
    /\ Becomes(c, "get_latest_frame")
    /\ UNCHANGED <<camera, is_running, _capture_thread, _lock, _latest_frame,
                   _frame_counter, threads, cam_call, last_fetched>>
    /\ UNCHANGED <<tracker_vars, service_vars>>

(* get_latest_frame(), lines 220-221 *)
get_latest_frame(c) ==
    /\ caller[c] = "get_latest_frame"
    /\ _lock = "None"
    /\ Returned("get_latest_frame", TRUE, _latest_frame, <<>>)
    /\ Becomes(c, "idle")
    /\ UNCHANGED <<camera, is_running, _capture_thread, _lock, _latest_frame,
                   _frame_counter, threads>>
    /\ UNCHANGED <<tracker_vars, service_vars>>

GetLatestFrame(c) ==
    /\ get_latest_frame(c)
    /\ UNCHANGED last_fetched

(* The same call, with the frame number the caller got kept as well. *)
GetLatestFrameFetched(c) ==
    /\ get_latest_frame(c)
    /\ last_fetched' = [last_fetched EXCEPT ![c] =
                            IF _latest_frame = <<>> THEN @
                            ELSE <<_latest_frame[1].frame_number>>]

ThreadStep(t, th) ==
    /\ threads' = [threads EXCEPT ![t] = th]
    /\ UNCHANGED <<camera, is_running, _capture_thread, _lock, _latest_frame,
                   _frame_counter, caller, cam_call, last_fetched>>
    /\ UNCHANGED <<tracker_vars, service_vars>>

(* _capture_loop, line 165 *)
LoopCheck(t) ==
    /\ threads[t].pc = "while"
    /\ ThreadStep(t, IF is_running THEN At("capture") ELSE Dead)

CaptureFailedEndsLoop == Dead

(* _capture_loop, lines 212-214: the handler of a tick that raised *)
CaptureFailed == At("except")

(* _capture_loop, lines 167-196: the tick up to the frame it builds, with  *)
(* the frame number read from the counter at line 181.                     *)
CaptureFrame(t, raises) ==
    /\ threads[t].pc = "capture"
    /\ camera = "None" => raises
    /\ ThreadStep(t, IF raises THEN CaptureFailed
                     ELSE [pc |-> "store", frame_number |-> _frame_counter])

(* _capture_loop, lines 199-210 *)
StoreFrame(t) ==
    /\ threads[t].pc = "store"
    /\ _lock = "None"
    /\ _frame_counter < MaxFrames
    /\ _latest_frame' = Frame(threads[t].frame_number)
    /\ _frame_counter' = _frame_counter + 1
    /\ threads' = [threads EXCEPT ![t] = At("while")]
    /\ UNCHANGED <<camera, is_running, _capture_thread, _lock, caller,
                   cam_call, last_fetched>>
    /\ UNCHANGED <<tracker_vars, service_vars>>

(* _capture_loop, line 214 and back to line 165 *)
ExceptSleep(t) ==
    /\ threads[t].pc = "except"
    /\ ThreadStep(t, At("while"))

(* CameraService.__init__, lines 66-75 *)
CameraInit ==
    /\ camera = "None"
    /\ is_running = FALSE
    /\ _capture_thread = "None"
    /\ _lock = "None"
    /\ _latest_frame = <<>>
    /\ _frame_counter = 0
    /\ threads = [t \in Threads |-> Dead]
    /\ caller = [c \in Callers |-> "idle"]
    /\ cam_call = [op |-> "none", ok |-> TRUE, frame |-> <<>>,
                   hardware |-> <<>>]
    /\ last_fetched = [c \in Consumers |-> <<>>]

----------------------------------------------------------------------------
(* DetectionService (src/src/detection_service.py).  start() and stop()    *)
(* come from the request handlers, hence from the one lifecycle thread;    *)
(* DetectionService._lock only serialises them and is not kept.  The join  *)
(* at line 101 ends with the thread when the tick in progress takes less   *)
(* than its five seconds (DetStopFinish), and without it when the tick     *)
(* takes longer (DetStopTimedOut): the thread is then followed as          *)
(* `leaked`, and `detector` is the thread of the next start().             *)

(* CameraService.is_active(), lines 223-225, read without the lock;        *)
(* CameraManager.is_running(), lines 75-79, returns it.                    *)
is_active == is_running /\ is_alive(_capture_thread)

InLoop(pc) == [pc |-> pc, raised |-> "none"]

DetReturned(op, ok, launched) ==
    det_call' = [op |-> op, ok |-> ok, launched |-> launched]

(* CameraManager.start(), lines 51-65, as start() calls it at line 70: the *)
(* handle, the flag and what the two calls returned.                       *)
manager_start(running, cam, open_ok, configure_ok, hw_ok) ==
    LET i == IF NeedsInitialize(cam) THEN initialize(cam, open_ok, configure_ok)
             ELSE [camera |-> cam, ok |-> TRUE, hardware |-> <<>>]
        r == start(running, i.camera, hw_ok)
    IN IF ~i.ok
       THEN [camera |-> i.camera, is_running |-> running, ok |-> FALSE,
             hardware |-> i.hardware, launched |-> FALSE]
       ELSE [camera |-> i.camera, is_running |-> r.is_running, ok |-> r.ok,
             hardware |-> i.hardware \o r.hardware, launched |-> r.launched]

(* start(), line 68: whether the camera has to be started first *)
CameraRunning(active) == active

LaunchAnyway(ok) == TRUE

(* start(), lines 70-72: go on to the thread only if the camera started *)
Launch(ok) == ok

(* start(), lines 54-89 *)
DetStart(c, open_ok, configure_ok, hw_ok) ==
    /\ caller[c] = "idle"
    /\ IF _running
       THEN /\ DetReturned("start", TRUE, FALSE)
            /\ UNCHANGED <<_running, _detection_thread, detector, leaked>>
            /\ UNCHANGED camera_vars
       ELSE IF CameraRunning(is_active)
       THEN /\ _running' = TRUE
            /\ _detection_thread' = "DetectionService"
            /\ detector' = InLoop("while")
            /\ UNCHANGED leaked
            /\ DetReturned("start", TRUE, TRUE)
            /\ UNCHANGED camera_vars
       ELSE /\ _lock = "None"
            /\ LET r == manager_start(is_running, camera, open_ok,
                                      configure_ok, hw_ok) IN
                 /\ camera' = r.camera
                 /\ is_running' = r.is_running
                 /\ IF r.launched
                    THEN /\ Alive # Threads
                         /\ threads' = [threads EXCEPT ![NewThread] = At("while")]
                         /\ _capture_thread' = NewThread
                    ELSE UNCHANGED <<threads, _capture_thread>>
                 /\ Returned("CameraManager.start", r.ok, <<>>, r.hardware)
                 /\ IF Launch(r.ok)
                    THEN /\ _running' = TRUE
                         /\ _detection_thread' = "DetectionService"
                         /\ detector' = InLoop("while")
                         /\ UNCHANGED leaked
                         /\ DetReturned("start", TRUE, TRUE)
                    ELSE /\ DetReturned("start", FALSE, FALSE)
                         /\ UNCHANGED <<_running, _detection_thread, detector, leaked>>
            /\ UNCHANGED <<_lock, _latest_frame, _frame_counter, caller,
                           last_fetched>>
    /\ UNCHANGED <<tracker_vars, streaming_vars, wire_vars>>

DetStopBeginStopsCamera(c) ==
    /\ caller[c] = "idle"
    /\ IF ~_running
       THEN /\ DetReturned("stop", TRUE, FALSE)
            /\ _detection_thread' = "None"
            /\ UNCHANGED <<_running, caller>>
       ELSE /\ _running' = FALSE
            /\ Becomes(c, "DetectionService.stop")
            /\ UNCHANGED <<_detection_thread, det_call>>
    /\ is_running' = FALSE
    /\ UNCHANGED <<camera, _capture_thread, _lock, _latest_frame,
                   _frame_counter, threads, cam_call, last_fetched>>
    /\ UNCHANGED <<detector, leaked, tracker_vars, streaming_vars, wire_vars>>

(* stop(), lines 93-98; when the service is not running,                   *)
(* stop_detection_service() still drops it at line 210.                    *)
DetStopBegin(c) ==
    /\ caller[c] = "idle"
    /\ IF ~_running
       THEN /\ DetReturned("stop", TRUE, FALSE)
            /\ _detection_thread' = "None"
            /\ UNCHANGED <<_running, caller>>
       ELSE /\ _running' = FALSE
            /\ Becomes(c, "DetectionService.stop")
            /\ UNCHANGED <<_detection_thread, det_call>>
    /\ UNCHANGED <<camera, is_running, _capture_thread, _lock, _latest_frame,
                   _frame_counter, threads, cam_call, last_fetched>>
    /\ UNCHANGED <<detector, leaked, tracker_vars, streaming_vars, wire_vars>>

(* stop(), lines 101-105, and stop_detection_service(), line 210: the next *)
(* start_detection_service() makes a new DetectionService.                 *)
DetStopFinish(c) ==
    /\ caller[c] = "DetectionService.stop"
    /\ detector.pc = "dead"
    /\ Becomes(c, "idle")
    /\ _detection_thread' = "None"
    /\ DetReturned("stop", TRUE, FALSE)
    /\ UNCHANGED <<camera, is_running, _capture_thread, _lock, _latest_frame,
                   _frame_counter, threads, cam_call, last_fetched>>
    /\ UNCHANGED <<_running, detector, leaked, tracker_vars, streaming_vars,
                   wire_vars>>

DetStep(th) ==
    /\ detector' = th
    /\ UNCHANGED <<_running, _detection_thread, leaked, det_call>>
    /\ UNCHANGED <<tracker_vars, camera_vars, streaming_vars, wire_vars>>

(* _detection_loop, line 111 *)
DetLoopCheck ==
    /\ detector.pc = "while"
    /\ DetStep(InLoop(IF _running THEN "is_running" ELSE "dead"))

(* _detection_loop, lines 116-119 *)
DetCameraCheck ==
    /\ detector.pc = "is_running"
    /\ DetStep(InLoop(IF is_active THEN "get_latest_frame"
                      ELSE "sleep(detection_interval)"))

NoFrameGoesOn == "prediction"

(* _detection_loop, lines 124-127: the tick without a frame *)
NoFrame == "sleep(detection_interval)"

(* _detection_loop, lines 122-127 *)
DetGetLatestFrame ==
    /\ detector.pc = "get_latest_frame"
    /\ _lock = "None"
    /\ DetStep(InLoop(IF _latest_frame = <<>> THEN NoFrame ELSE "prediction"))

(* prediction(), src/src/detection.py lines 63-181: what it returns as the *)
(* detections when the detector finds `found`, and when it raises.         *)
prediction(found, raises) == IF raises THEN <<>> ELSE found

(* _detection_loop, lines 140-146: the call the tick makes on the tracker *)
track(s, detections, t, order, failAt) ==
    IF detections # <<>>
    THEN process_detections(s, detections, t, order, failAt)
    ELSE _check_for_leaving_objects(s, t, {}, failAt)

LoopEndsOnError == "dead"

(* _detection_loop, lines 159-161: the handler of a tick that raised *)
TickFailed == "except"

(* _detection_loop, lines 130-157, up to the sleep *)
DetTick(found, raises, t, order, failAt) ==
    /\ detector.pc = "prediction"
    /\ LET detections == prediction(found, raises)
           s == track(Handler, detections, t, order, failAt)
       IN /\ Outcome(IF detections # <<>> THEN "process_detections"
                     ELSE "_check_for_leaving_objects", detections, t, s)
          /\ detector' = [pc |-> IF s.raised THEN TickFailed
                                 ELSE "sleep(remainder)",
                          raised |-> IF raises THEN "detector"
                                     ELSE IF s.raised THEN "tracker"
                                     ELSE "none"]
    /\ UNCHANGED sightings
    /\ UNCHANGED <<_running, _detection_thread, leaked, det_call>>
    /\ UNCHANGED <<camera_vars, streaming_vars, wire_vars>>

(* _detection_loop, lines 119, 127, 157 and 161, and back to line 111 *)
DetSleep ==
    /\ detector.pc \in {"sleep(detection_interval)", "sleep(remainder)",
                        "except"}
    /\ DetStep(InLoop("while"))

(* What a thread left behind is doing: as a detection thread, and whether  *)
(* its DetectionService has been dropped for a new one.                    *)
Leaked(th, dropped) == [pc |-> th.pc, raised |-> th.raised, dropped |-> dropped]

(* stop(), line 101: join(timeout=5.0) gives up on a thread that is inside *)
(* a tick.                                                                 *)
JoinTimesOut(pc) == pc \notin {"dead", "while"}

(* stop(), lines 101-105, with a join that times out; with `dropped`, from *)
(* stop_detection_service(), whose line 210 drops the service so that the  *)
(* next start_detection_service() makes a new one with a flag of its own.  *)
DetStopTimedOut(c, dropped) ==
    /\ caller[c] = "DetectionService.stop"
    /\ JoinTimesOut(detector.pc)
    /\ leaked.pc = "dead"
    /\ Becomes(c, "idle")
    /\ leaked' = Leaked(detector, dropped)
    /\ detector' = InLoop("dead")
    /\ _detection_thread' = "None"
    /\ DetReturned("stop", TRUE, FALSE)
    /\ UNCHANGED <<camera, is_running, _capture_thread, _lock, _latest_frame,
                   _frame_counter, threads, cam_call, last_fetched>>
    /\ UNCHANGED <<_running, tracker_vars, streaming_vars, wire_vars>>

(* _detection_loop, lines 130-138: prediction() has returned and the       *)
(* thread enters the tracker at line 141 or 146.                           *)
DetPrediction ==
    /\ detector.pc = "prediction"
    /\ DetStep(InLoop("tracker"))

(* _detection_loop, lines 141-157: the call on the tracker returns or      *)
(* raises, for a tick in which the detector has found nothing.             *)
DetTracker(t, failAt) ==
    /\ detector.pc = "tracker"
    /\ LET s == track(Handler, <<>>, t, <<>>, failAt)
       IN /\ Outcome("_check_for_leaving_objects", <<>>, t, s)
          /\ detector' = [pc |-> IF s.raised THEN TickFailed
                                 ELSE "sleep(remainder)",
                          raised |-> IF s.raised THEN "tracker" ELSE "none"]
    /\ UNCHANGED sightings
    /\ UNCHANGED <<_running, _detection_thread, leaked, det_call>>
    /\ UNCHANGED <<camera_vars, streaming_vars, wire_vars>>

LeakedStep(pc) ==
    /\ leaked' = [leaked EXCEPT !.pc = pc, !.raised = "none"]
    /\ UNCHANGED <<_running, _detection_thread, detector, det_call>>
    /\ UNCHANGED <<tracker_vars, camera_vars, streaming_vars, wire_vars>>

(* _detection_loop, line 111, read by the thread left behind: the flag of  *)
(* its own service, which stop() has cleared and only a start() of that    *)
(* same service sets again.                                                *)
LeakedLoopCheck ==
    /\ leaked.pc = "while"
    /\ LeakedStep(IF ~leaked.dropped /\ _running THEN "is_running" ELSE "dead")

(* _detection_loop, lines 116-119 *)
LeakedCameraCheck ==
    /\ leaked.pc = "is_running"
    /\ LeakedStep(IF is_active THEN "get_latest_frame"
                  ELSE "sleep(detection_interval)")

(* _detection_loop, lines 122-127 *)
LeakedGetLatestFrame ==
    /\ leaked.pc = "get_latest_frame"
    /\ _lock = "None"
    /\ LeakedStep(IF _latest_frame = <<>> THEN NoFrame ELSE "prediction")

(* _detection_loop, lines 130-138 *)
LeakedPrediction ==
    /\ leaked.pc = "prediction"
    /\ LeakedStep("tracker")

(* _detection_loop, lines 141-157 *)
LeakedTracker(t, failAt) ==
    /\ leaked.pc = "tracker"
    /\ LET s == track(Handler, <<>>, t, <<>>, failAt)
       IN /\ Outcome("_check_for_leaving_objects", <<>>, t, s)
          /\ leaked' = [leaked EXCEPT
                           !.pc = IF s.raised THEN TickFailed
                                  ELSE "sleep(remainder)",
                           !.raised = IF s.raised THEN "tracker" ELSE "none"]
    /\ UNCHANGED sightings
    /\ UNCHANGED <<_running, _detection_thread, detector, det_call>>
    /\ UNCHANGED <<camera_vars, streaming_vars, wire_vars>>

(* _detection_loop, lines 119, 127, 157 and 161, and back to line 111 *)
LeakedSleep ==
    /\ leaked.pc \in {"sleep(detection_interval)", "sleep(remainder)",
                      "except"}
    /\ LeakedStep("while")

(* DetectionService.__init__, lines 49-51 *)
DetectionInit ==
    /\ _running = FALSE
    /\ _detection_thread = "None"
    /\ detector = InLoop("dead")
    /\ leaked = Leaked(InLoop("dead"), FALSE)
    /\ det_call = [op |-> "none", ok |-> TRUE, launched |-> FALSE]

----------------------------------------------------------------------------
(* StreamingService (src/src/streaming_service.py).  start_streaming(),    *)
(* stop_streaming() and create_stream_response() come from the request     *)
(* handlers, hence from the lifecycle thread.  The generator that          *)
(* _create_stream() returns is run by its consumer on a thread of its own, *)
(* one per viewer; `self.active_streams += 1` is a load of the attribute   *)
(* and a store of the sum, and another thread can run between the two.     *)

(* The connections that can be opened, each once. *)
Viewers == {"viewer-1", "viewer-2"}

(* A viewer: where its generator is, the value of active_streams it has    *)
(* loaded, how often it has stored at line 80 and at line 110, what ended  *)
(* its loop, and whether stop_streaming() was called since it started.     *)
NoViewer == [pc |-> "none", loaded |-> 0, incs |-> 0, decs |-> 0,
             ended |-> "no", deactivated |-> FALSE]

(* The generators that have stored at line 80 and not yet at line 110. *)
Streaming == {v \in Viewers : viewers[v].incs > viewers[v].decs}

StreamReturned(op, ok) == stream_call' = [op |-> op, ok |-> ok]

(* CameraManager.start() as start_streaming() calls it at line 40 *)
CameraManagerStart(r) ==
    /\ _lock = "None"
    /\ camera' = r.camera
    /\ is_running' = r.is_running
    /\ IF r.launched
       THEN /\ Alive # Threads
            /\ threads' = [threads EXCEPT ![NewThread] = At("while")]
            /\ _capture_thread' = NewThread
       ELSE UNCHANGED <<threads, _capture_thread>>
    /\ Returned("CameraManager.start", r.ok, <<>>, r.hardware)
    /\ UNCHANGED <<_lock, _latest_frame, _frame_counter, caller, last_fetched>>

ActivatesAnyway(ok) == TRUE

(* start_streaming(), lines 41-43: the flag is set if the camera started *)
Activates(ok) == ok

(* start_streaming(), lines 31-50 *)
StartStreaming(c, open_ok, configure_ok, hw_ok) ==
    /\ caller[c] = "idle"
    /\ IF is_active
       THEN /\ is_streaming_active' = TRUE
            /\ StreamReturned("start_streaming", TRUE)
            /\ UNCHANGED camera_vars
       ELSE LET r == manager_start(is_running, camera, open_ok, configure_ok,
                                   hw_ok) IN
            /\ CameraManagerStart(r)
            /\ is_streaming_active' =
                  IF Activates(r.ok) THEN TRUE ELSE is_streaming_active
            /\ StreamReturned("start_streaming", r.ok)
    /\ UNCHANGED <<active_streams, viewers>>
    /\ UNCHANGED <<tracker_vars, detection_vars, wire_vars>>

StopStreamingStopsCamera(c) ==
    /\ caller[c] = "idle"
    /\ is_streaming_active' = FALSE
    /\ StreamReturned("stop_streaming", TRUE)
    /\ viewers' = [v \in Viewers |->
                     IF v \in Streaming
                     THEN [viewers[v] EXCEPT !.deactivated = TRUE]
                     ELSE viewers[v]]
    /\ is_running' = FALSE
    /\ UNCHANGED <<camera, _capture_thread, _lock, _latest_frame,
                   _frame_counter, threads, caller, cam_call, last_fetched>>
    /\ UNCHANGED active_streams
    /\ UNCHANGED <<tracker_vars, detection_vars, wire_vars>>

(* stop_streaming(), lines 52-58 *)
StopStreaming(c) ==
    /\ caller[c] = "idle"
    /\ is_streaming_active' = FALSE
    /\ StreamReturned("stop_streaming", TRUE)
    /\ viewers' = [v \in Viewers |->
                     IF v \in Streaming
                     THEN [viewers[v] EXCEPT !.deactivated = TRUE]
                     ELSE viewers[v]]
    /\ UNCHANGED active_streams
    /\ UNCHANGED <<tracker_vars, camera_vars, detection_vars, wire_vars>>

CanStreamAlways(streaming_active) == TRUE

(* create_stream_response(), line 70 *)
CanStream(streaming_active) == streaming_active

(* create_stream_response(), lines 68-76: the generator is made, and       *)
(* nothing of its body runs yet.                                           *)
CreateStreamResponse(c, v) ==
    /\ caller[c] = "idle"
    /\ viewers[v].pc = "none"
    /\ IF CanStream(is_streaming_active)
       THEN /\ viewers' = [viewers EXCEPT ![v].pc = "created"]
            /\ StreamReturned("create_stream_response", TRUE)
       ELSE /\ StreamReturned("create_stream_response", FALSE)
            /\ UNCHANGED viewers
    /\ UNCHANGED <<is_streaming_active, active_streams>>
    /\ UNCHANGED <<tracker_vars, camera_vars, detection_vars, wire_vars>>

ViewerStep(v, th) ==
    /\ viewers' = [viewers EXCEPT ![v] = th]
    /\ UNCHANGED <<is_streaming_active, stream_call>>
    /\ UNCHANGED <<tracker_vars, camera_vars, detection_vars, wire_vars>>

(* _create_stream, line 80, first half: the consumer asks for the first    *)
(* chunk and the body starts.                                              *)
ViewerLoadIncrement(v) ==
    /\ viewers[v].pc = "created"
    /\ ViewerStep(v, [viewers[v] EXCEPT !.pc = "+=", !.loaded = active_streams])
    /\ UNCHANGED active_streams

(* _create_stream, line 80, second half *)
ViewerIncrement(v) ==
    /\ viewers[v].pc = "+="
    /\ active_streams' = viewers[v].loaded + 1
    /\ ViewerStep(v, [viewers[v] EXCEPT !.pc = "while", !.loaded = 0,
                                        !.incs = @ + 1])

TeardownSkipped == "done"

(* _create_stream, line 109: where every way out of the loop leads *)
Teardown == "finally"

Ends(v, how) == [viewers[v] EXCEPT !.pc = Teardown, !.ended = how]

LoopGoesOn(streaming_active, camera_active) == TRUE

(* _create_stream, line 86 *)
LoopTest(streaming_active, camera_active) == streaming_active /\ camera_active

ViewerLoopTest(v) ==
    /\ viewers[v].pc = "while"
    /\ ViewerStep(v, IF LoopTest(is_streaming_active, is_active)
                     THEN [viewers[v] EXCEPT !.pc = "get_latest_frame"]
                     ELSE Ends(v, IF is_streaming_active THEN "inactive"
                                  ELSE "deactivated"))
    /\ UNCHANGED active_streams

(* _create_stream, lines 89-107, up to the yield: without a frame the      *)
(* viewer sleeps and tests again; an exception from the encoder breaks the *)
(* loop.  CameraManager.get_latest_frame turns an exception of the frame   *)
(* source into None.                                                       *)
ViewerGetLatestFrame(v, raises) ==
    /\ viewers[v].pc = "get_latest_frame"
    /\ _lock = "None"
    /\ _latest_frame = <<>> => ~raises
    /\ ViewerStep(v, IF _latest_frame = <<>>
                     THEN [viewers[v] EXCEPT !.pc = "while"]
                     ELSE IF raises THEN Ends(v, "exception")
                     ELSE [viewers[v] EXCEPT !.pc = "yield"])
    /\ UNCHANGED active_streams

(* The consumer asks for the next chunk: lines 101-104 and back to 86. *)
ViewerNext(v) ==
    /\ viewers[v].pc = "yield"
    /\ ViewerStep(v, [viewers[v] EXCEPT !.pc = "while"])
    /\ UNCHANGED active_streams

(* The consumer closes the generator: GeneratorExit is raised at the       *)
(* yield, which `except Exception` does not catch; a generator that was    *)
(* never started just ends.                                                *)
ViewerClose(v) ==
    /\ viewers[v].pc \in {"created", "yield"}
    /\ ViewerStep(v, IF viewers[v].pc = "created"
                     THEN [viewers[v] EXCEPT !.pc = "closed"]
                     ELSE Ends(v, "closed"))
    /\ UNCHANGED active_streams

(* _create_stream, line 110, first half *)
ViewerLoadDecrement(v) ==
    /\ viewers[v].pc = "finally"
    /\ ViewerStep(v, [viewers[v] EXCEPT !.pc = "-=", !.loaded = active_streams])
    /\ UNCHANGED active_streams

(* _create_stream, line 110, second half *)
ViewerDecrement(v) ==
    /\ viewers[v].pc = "-="
    /\ active_streams' = viewers[v].loaded - 1
    /\ ViewerStep(v, [viewers[v] EXCEPT !.pc = "done", !.loaded = 0,
                                        !.decs = @ + 1])

(* StreamingService.__init__, lines 25-29 *)
StreamingInit ==
    /\ is_streaming_active = FALSE
    /\ active_streams = 0
    /\ viewers = [v \in Viewers |-> NoViewer]
    /\ stream_call = [op |-> "none", ok |-> TRUE]

(* _format_frame (src/src/streaming_service.py, lines 113-123).  A str is a *)
(* sequence of code points and bytes are a sequence of numbers below 256.  *)

(* The length of an encoded image is followed up to MaxLen bytes. *)
MaxLen == 11

(* The bytes an encoded image is made of here: LF and CR. *)
Bytes == {10, 13}

Images == UNION {[1..n -> Bytes] : n \in 0..MaxLen}

strLastDigit(n) == <<48 + (n % 10)>>

(* str(n) of a non-negative int, as the f-string of line 118 applies it *)
RECURSIVE str(_)
str(n) == IF n < 10 THEN <<48 + n>> ELSE str(n \div 10) \o <<48 + (n % 10)>>

(* str.encode(): UTF-8 *)
RECURSIVE encode(_)
encode(text) ==
    IF text = <<>> THEN <<>>
    ELSE (IF Head(text) < 128 THEN <<Head(text)>>
          ELSE <<192 + (Head(text) \div 64), 128 + (Head(text) % 64)>>)
         \o encode(Tail(text))

(* _format_frame, lines 115-123 *)
_format_frame(frame_data) ==
    encode(<<45, 45, 102, 114, 97, 109, 101, 13, 10>>
           \o <<67, 111, 110, 116, 101, 110, 116, 45, 84, 121, 112, 101, 58, 32, 105, 109, 97, 103, 101, 47, 106, 112, 101, 103, 13, 10>>
           \o <<67, 111, 110, 116, 101, 110, 116, 45, 76, 101, 110, 103, 116, 104, 58, 32>> \o str(Len(frame_data)) \o <<13, 10, 13, 10>>)
    \o frame_data
    \o <<13, 10>>

(* _create_stream, line 100: the chunk made of the encoded image *)
FormatFrame ==
    /\ chunk = <<>>
    /\ chunk' = _format_frame(frame_jpeg)
    /\ UNCHANGED frame_jpeg
    /\ UNCHANGED <<tracker_vars, camera_vars, detection_vars, streaming_vars>>

(* The state after construction, the wire aside. *)
Constructed ==
    /\ now = 0
    /\ current_objects = <<>>
    /\ event_log = <<>>
    /\ call = [op |-> "none", detected |-> {}, best |-> <<>>,
               sink_failed |-> FALSE, raised |-> FALSE, returned |-> <<>>]
    /\ sightings = [c \in Classes |-> <<>>]
    /\ CameraInit
    /\ DetectionInit
    /\ StreamingInit

Init ==
    /\ Constructed
    /\ frame_jpeg = <<>>
    /\ chunk = <<>>

(* Any encoded image, about to be formatted. *)
InitFormat ==
    /\ Constructed
    /\ frame_jpeg \in Images
    /\ chunk = <<>>

Next ==
    \/ \E detections \in Batches, t \in now..MaxTime :
         \E order \in Orders(detected_classes(detections)) :
           \E failAt \in SinkCalls(process_detections(Handler, detections, t, order, 0)) :
              ProcessDetections(detections, t, order, failAt)
    \/ \E t \in now..MaxTime :
         \E failAt \in SinkCalls(_check_for_leaving_objects(Handler, t, {}, 0)) :
            CheckForLeavingObjects(t, failAt)

Spec == Init /\ [][Next]_vars

NextSighted ==
    \/ \E detections \in Batches, t \in now..MaxTime :
         \E order \in Orders(detected_classes(detections)) :
           \E failAt \in SinkCalls(process_detections(Handler, detections, t, order, 0)) :
              ProcessDetectionsSighted(detections, t, order, failAt)
    \/ \E t \in now..MaxTime :
         \E failAt \in SinkCalls(_check_for_leaving_objects(Handler, t, {}, 0)) :
            CheckForLeavingObjects(t, failAt)

SpecSighted == Init /\ [][NextSighted]_vars

(* Every step of the service but the return of get_latest_frame(). *)
NextService ==
    \/ \E c \in Lifecycle, open_ok \in BOOLEAN, configure_ok \in BOOLEAN :
            Initialize(c, open_ok, configure_ok)
    \/ \E c \in Lifecycle, hw_ok \in BOOLEAN : Start(c, hw_ok)
    \/ \E c \in Lifecycle, open_ok \in BOOLEAN, configure_ok \in BOOLEAN :
            ManagerStartBegin(c, open_ok, configure_ok)
    \/ \E c \in Lifecycle, hw_ok \in BOOLEAN : ManagerStartFinish(c, hw_ok)
    \/ \E c \in Lifecycle : StopBegin(c)
    \/ \E c \in Lifecycle : StopFinish(c)
    \/ \E c \in Lifecycle, close_ok \in BOOLEAN : Cleanup(c, close_ok)
    \/ \E c \in Consumers : CallGetLatestFrame(c)
    \/ \E t \in Threads : LoopCheck(t)
    \/ \E t \in Threads, raises \in BOOLEAN : CaptureFrame(t, raises)
    \/ \E t \in Threads : StoreFrame(t)
    \/ \E t \in Threads : ExceptSleep(t)

NextCamera ==
    \/ NextService
    \/ \E c \in Consumers : GetLatestFrame(c)

SpecCamera == Init /\ [][NextCamera]_vars

NextCameraFetched ==
    \/ NextService
    \/ \E c \in Consumers : GetLatestFrameFetched(c)

SpecCameraFetched == Init /\ [][NextCameraFetched]_vars

(* What the detector finds in a frame: nothing, or a cat. *)
Found ==
    {b \in Batches : Len(b) <= 1 /\ \A i \in DOMAIN b : b[i].class_name = "cat"}

(* What it finds while the pets are away. *)
Nothing == {<<>>}

(* The steps of the two loops, the tick's detection aside, and the         *)
(* lifecycle thread starting and stopping the detection service.           *)
NextLoops ==
    \/ \E c \in Lifecycle, open_ok \in BOOLEAN, configure_ok \in BOOLEAN,
          hw_ok \in BOOLEAN : DetStart(c, open_ok, configure_ok, hw_ok)
    \/ \E c \in Lifecycle : DetStopBegin(c)
    \/ \E c \in Lifecycle : DetStopFinish(c)
    \/ DetLoopCheck
    \/ DetCameraCheck
    \/ DetGetLatestFrame
    \/ DetSleep
    \/ \E t \in Threads : LoopCheck(t)
    \/ \E t \in Threads, raises \in BOOLEAN : CaptureFrame(t, raises)
    \/ \E t \in Threads : StoreFrame(t)
    \/ \E t \in Threads : ExceptSleep(t)

(* A tick's detection, with the clock read from T. *)
DetTickAt(T) ==
    \E found \in Found, raises \in BOOLEAN, t \in T :
      \E order \in Orders(detected_classes(prediction(found, raises))) :
        \E failAt \in SinkCalls(track(Handler, prediction(found, raises),
                                      t, order, 0)) :
           DetTick(found, raises, t, order, failAt)

(* The detection service over a camera service that is left running. *)
NextDetection ==
    \/ NextLoops
    \/ DetTickAt(now..MaxTime)

SpecDetection == Init /\ [][NextDetection]_vars

(* The detection service over a camera service that the lifecycle thread   *)
(* stops as well, while the pets are away.                                 *)
NextDetectionCamera ==
    \/ NextLoops
    \/ \E c \in Lifecycle : StopBegin(c)
    \/ \E c \in Lifecycle : StopFinish(c)
    \/ \E found \in Nothing, raises \in BOOLEAN, t \in now..MaxTime :
         \E failAt \in SinkCalls(track(Handler, prediction(found, raises),
                                         t, <<>>, 0)) :
              DetTick(found, raises, t, <<>>, failAt)

SpecDetectionCamera == Init /\ [][NextDetectionCamera]_vars

(* The detection service stopped and started again while the pets are      *)
(* away, the join of stop() timing out or not, over a camera service that  *)
(* is left running; the clock stands still.                                *)
NextDetectionRestart ==
    \/ NextLoops
    \/ \E c \in Lifecycle, dropped \in BOOLEAN : DetStopTimedOut(c, dropped)
    \/ DetPrediction
    \/ \E failAt \in SinkCalls(track(Handler, <<>>, now, <<>>, 0)) :
          DetTracker(now, failAt)
    \/ LeakedLoopCheck
    \/ LeakedCameraCheck
    \/ LeakedGetLatestFrame
    \/ LeakedPrediction
    \/ \E failAt \in SinkCalls(track(Handler, <<>>, now, <<>>, 0)) :
          LeakedTracker(now, failAt)
    \/ LeakedSleep

SpecDetectionRestart == Init /\ [][NextDetectionRestart]_vars

(* The steps of the generators of the viewers in V. *)
NextViewers(V) ==
    \/ \E v \in V : ViewerLoadIncrement(v)
    \/ \E v \in V : ViewerIncrement(v)
    \/ \E v \in V : ViewerLoopTest(v)
    \/ \E v \in V, raises \in BOOLEAN : ViewerGetLatestFrame(v, raises)
    \/ \E v \in V : ViewerNext(v)
    \/ \E v \in V : ViewerClose(v)
    \/ \E v \in V : ViewerLoadDecrement(v)
    \/ \E v \in V : ViewerDecrement(v)

(* The calls of the lifecycle thread on the streaming service, for the     *)
(* viewers in V, and the capture loop.                                     *)
NextStreamingService(V) ==
    \/ \E c \in Lifecycle, open_ok \in BOOLEAN, configure_ok \in BOOLEAN,
          hw_ok \in BOOLEAN : StartStreaming(c, open_ok, configure_ok, hw_ok)
    \/ \E c \in Lifecycle : StopStreaming(c)
    \/ \E c \in Lifecycle, v \in V : CreateStreamResponse(c, v)
    \/ \E t \in Threads : LoopCheck(t)
    \/ \E t \in Threads, raises \in BOOLEAN : CaptureFrame(t, raises)
    \/ \E t \in Threads : StoreFrame(t)
    \/ \E t \in Threads : ExceptSleep(t)

(* The streaming service with all its viewers, over a camera service that  *)
(* is left running.                                                        *)
NextStreaming ==
    \/ NextStreamingService(Viewers)
    \/ NextViewers(Viewers)

SpecStreaming == Init /\ [][NextStreaming]_vars

(* The streaming service with one viewer, over a camera service that the   *)
(* lifecycle thread stops as well.                                         *)
NextStreamingCamera ==
    \/ NextStreamingService({"viewer-1"})
    \/ NextViewers({"viewer-1"})
    \/ \E c \in Lifecycle : StopBegin(c)
    \/ \E c \in Lifecycle : StopFinish(c)

SpecStreamingCamera == Init /\ [][NextStreamingCamera]_vars

(* The same under a fair scheduler: a thread that can take a step takes    *)
(* one, the consumer of a generator asks for the next chunk or closes it,  *)
(* and stop() returns when its join does.                                  *)
FairSpecStreamingCamera ==
    /\ SpecStreamingCamera
    /\ WF_vars(NextViewers({"viewer-1"}))
    /\ WF_vars(\E c \in Lifecycle : StopFinish(c))
    /\ \A t \in Threads :
          WF_vars(\/ LoopCheck(t) \/ StoreFrame(t) \/ ExceptSleep(t)
                  \/ \E raises \in BOOLEAN : CaptureFrame(t, raises))

SpecFormat == InitFormat /\ [][FormatFrame]_vars

----------------------------------------------------------------------------
(* What the properties below speak of *)

(* The rows the step's call delivered to the sink, in order. *)
NewRows == SubSeq(event_log', Len(event_log) + 1, Len(event_log'))

RowsOf(rows, event_type, c) ==
    {i \in DOMAIN rows : rows[i].event_type = event_type /\ rows[i].class_name = c}

RowsAbout(rows, c) == {i \in DOMAIN rows : rows[i].class_name = c}

(* The event types the sink holds for class c, oldest first. *)
RECURSIVE TypesOf(_, _)
TypesOf(rows, c) ==
    IF rows = <<>> THEN <<>>
    ELSE IF Head(rows).class_name = c
         THEN <<Head(rows).event_type>> \o TypesOf(Tail(rows), c)
         ELSE TypesOf(Tail(rows), c)

(* A returned event without its event_id is the row it stands for. *)
AsRow(e) == [event_type |-> e.event_type, class_name |-> e.class_name,
             confidence |-> e.confidence]

(* Tracked before the step, not in the step's batch, and not seen for      *)
(* timeout_seconds or more at the time of the step's call.                 *)
Due(c) ==
    /\ c \in Keys(current_objects)
    /\ c \notin call'.detected
    /\ now' - Get(current_objects, c) >= timeout_seconds

----------------------------------------------------------------------------
(* C1: in the sink's rows, between two ENTERING_AREA rows of one class     *)
(* there is always a LEAVING_AREA row of that class, and a call whose      *)
(* batch contains a class already tracked adds no ENTERING_AREA row for    *)
(* it.                                                                     *)
C1_EnteringOnlyAfterLeaving ==
    [][/\ \A i, j \in DOMAIN event_log' :
             (/\ i < j
              /\ event_log'[i].event_type = ENTERING_AREA
              /\ event_log'[j].event_type = ENTERING_AREA
              /\ event_log'[i].class_name = event_log'[j].class_name)
             => \E k \in (i + 1)..(j - 1) :
                   /\ event_log'[k].event_type = LEAVING_AREA
                   /\ event_log'[k].class_name = event_log'[i].class_name
       /\ \A c \in Keys(current_objects) \cap call'.detected :
             RowsOf(NewRows, ENTERING_AREA, c) = {}]_vars

(* A call returned whose batch held a class that was tracked already (the  *)
(* call gave it no event), its ENTERING_AREA row being in the sink.        *)
C1_Witness ==
    /\ call.op = "process_detections"
    /\ ~call.raised
    /\ \E c \in call.detected :
          /\ \A i \in DOMAIN call.returned : call.returned[i].class_name # c
          /\ RowsOf(event_log, ENTERING_AREA, c) # {}
          /\ c \in Keys(current_objects)

(* C2: a class that was in batches at one time t0 only, and absent from    *)
(* the call just made at a time >= t0 + timeout_seconds, has exactly one   *)
(* ENTERING_AREA and then exactly one LEAVING_AREA in the sink, and this   *)
(* stays so in all later calls without it.                                 *)
C2_OneEnteringOneLeaving ==
    \A c \in Classes :
        (/\ sightings[c] # <<>>
         /\ sightings[c][1] = sightings[c][2]
         /\ call.op # "none"
         /\ c \notin call.detected
         /\ now >= sightings[c][2] + timeout_seconds)
        => TypesOf(event_log, c) = <<ENTERING_AREA, LEAVING_AREA>>

(* C3: a tracked class seen again less than timeout_seconds after its      *)
(* last sighting gets no event in that call, and a LEAVING_AREA row for a  *)
(* class is only ever added timeout_seconds or more after the last batch   *)
(* that contained the class.                                               *)
C3_ClockRestartsAtEverySighting ==
    [][\A c \in Classes :
         /\ (/\ c \in Keys(current_objects)
             /\ c \in call'.detected
             /\ sightings[c] # <<>>
             /\ now' - sightings[c][2] < timeout_seconds)
            => RowsAbout(NewRows, c) = {}
         /\ RowsOf(NewRows, LEAVING_AREA, c) # {}
            => /\ sightings[c] # <<>>
               /\ now' - sightings[c][2] >= timeout_seconds]_vars

(* C4: after every call, normal or raising, a class is a key of            *)
(* current_objects exactly when the sink's last row for it is an           *)
(* ENTERING_AREA; a key goes in the call that adds the LEAVING_AREA row    *)
(* for it and in no other.                                                 *)
C4_TrackedIffEnteredNotLeft ==
    [][\A c \in Classes :
         /\ c \in Keys(current_objects')
            <=> /\ TypesOf(event_log', c) # <<>>
                /\ TypesOf(event_log', c)[Len(TypesOf(event_log', c))] = ENTERING_AREA
         /\ (c \in Keys(current_objects) /\ c \notin Keys(current_objects'))
            <=> RowsOf(NewRows, LEAVING_AREA, c) # {}]_vars

(* C5: a process_detections call in which db.log_event fails still         *)
(* returns: the list holds an ENTERING_AREA for every class of the batch   *)
(* that was not tracked and a LEAVING_AREA for every class that was due,   *)
(* the classes of the batch are tracked as seen now and the due ones are   *)
(* gone.                                                                   *)
C5_SinkFailureStillReported ==
    [][(call'.op = "process_detections" /\ call'.sink_failed)
       => /\ ~call'.raised
          /\ \A c \in call'.detected :
                /\ c \in Keys(current_objects')
                /\ Get(current_objects', c) = now'
                /\ c \notin Keys(current_objects)
                   => RowsOf(call'.returned, ENTERING_AREA, c) # {}
          /\ \A c \in Classes :
                Due(c) => /\ RowsOf(call'.returned, LEAVING_AREA, c) # {}
                          /\ c \notin Keys(current_objects')]_vars

(* C6: a call adds a LEAVING_AREA row for a class only if the class is     *)
(* tracked, not in the batch and not seen for timeout_seconds or more; and *)
(* every such class gets exactly one LEAVING_AREA row in that call, of     *)
(* confidence 0.8.                                                         *)
C6_LeavingExactlyWhenDue ==
    [][\A c \in Classes :
         /\ RowsOf(NewRows, LEAVING_AREA, c) # {} => Due(c)
         /\ Due(c) => /\ Cardinality(RowsOf(NewRows, LEAVING_AREA, c)) = 1
                      /\ \A i \in RowsOf(NewRows, LEAVING_AREA, c) :
                            NewRows[i].confidence = 8]_vars

(* C7: process_detections with an untracked class in the batch adds        *)
(* exactly one ENTERING_AREA row for it, of the highest confidence the     *)
(* batch holds for the class, and tracks it as seen at the call's time.    *)
C7_EnteringWithMaxConfidence ==
    [][call'.op = "process_detections"
       => \A c \in call'.detected \ Keys(current_objects) :
             /\ Cardinality(RowsOf(NewRows, ENTERING_AREA, c)) = 1
             /\ \A i \in RowsOf(NewRows, ENTERING_AREA, c) :
                   NewRows[i].confidence = call'.best[c]
             /\ c \in Keys(current_objects')
             /\ Get(current_objects', c) = now']_vars

(* C8: process_detections with an empty list adds no ENTERING_AREA row,    *)
(* adds one LEAVING_AREA row for each tracked class not seen for           *)
(* timeout_seconds or more and for no other, removes those classes and     *)
(* leaves the other entries as they were.                                  *)
C8_EmptyBatchOnlyExpires ==
    [][(call'.op = "process_detections" /\ call'.detected = {})
       => /\ \A i \in DOMAIN NewRows : NewRows[i].event_type = LEAVING_AREA
          /\ \A c \in Classes :
                Cardinality(RowsAbout(NewRows, c)) = IF Due(c) THEN 1 ELSE 0
          /\ Keys(current_objects') = {c \in Keys(current_objects) : ~Due(c)}
          /\ \A i \in DOMAIN current_objects' :
                \E j \in DOMAIN current_objects : current_objects'[i] = current_objects[j]]_vars

(* C9: a call whose batch does not hold a tracked class, made less than    *)
(* timeout_seconds after the class's last_seen, adds no row and returns no *)
(* event for the class and leaves its entry, last_seen included, as it     *)
(* was.                                                                    *)
C9_NoEventBeforeTimeout ==
    [][\A c \in Keys(current_objects) :
         (c \notin call'.detected /\ now' - Get(current_objects, c) < timeout_seconds)
         => /\ RowsAbout(NewRows, c) = {}
            /\ RowsAbout(call'.returned, c) = {}
            /\ c \in Keys(current_objects')
            /\ Get(current_objects', c) = Get(current_objects, c)]_vars

(* A call was made later than the last sighting of a tracked class, less   *)
(* than timeout_seconds after it, with a batch that did not hold the       *)
(* class: the class is tracked still, with the old last_seen.              *)
C9_Witness ==
    /\ call.op # "none"
    /\ \E c \in Keys(current_objects) :
          /\ c \notin call.detected
          /\ Get(current_objects, c) < now
          /\ now - Get(current_objects, c) < timeout_seconds

(* C10: the list a call returns is the rows the call added to the sink, in *)
(* the sink's order and with their event_ids, and in the rows a call adds  *)
(* no LEAVING_AREA comes before an ENTERING_AREA.                          *)
C10_ReturnedInEmissionOrder ==
    [][/\ (call'.op # "none" /\ ~call'.raised)
          => /\ Len(call'.returned) = Len(NewRows)
             /\ \A i \in DOMAIN NewRows :
                   /\ AsRow(call'.returned[i]) = NewRows[i]
                   /\ call'.returned[i].event_id = Len(event_log) + i
       /\ \A i, j \in DOMAIN NewRows :
             (i < j /\ NewRows[i].event_type = LEAVING_AREA)
             => NewRows[j].event_type = LEAVING_AREA]_vars

(* A process_detections call returned an ENTERING_AREA and a LEAVING_AREA. *)
C10_Witness ==
    /\ call.op = "process_detections"
    /\ ~call.raised
    /\ \E i, j \in DOMAIN call.returned :
          /\ call.returned[i].event_type = ENTERING_AREA
          /\ call.returned[j].event_type = LEAVING_AREA

----------------------------------------------------------------------------
(* Properties of the camera service *)

(* C11: between two cleanups, the frames one consumer gets from            *)
(* get_latest_frame() never go back in frame_number: a frame it gets has a *)
(* number at least that of the frame it got before.                        *)
C11_FetchedNeverOlder ==
    [][\A c \in Consumers :
          (last_fetched[c] # <<>> /\ last_fetched'[c] # <<>>)
              => last_fetched'[c][1] >= last_fetched[c][1]]_vars

(* C12: whatever start(), stop() and cleanup() calls are made, a stop()    *)
(* whose join timed out and a start() after it included, at most one       *)
(* thread is inside _capture_loop.                                         *)
C12_AtMostOneCaptureThread == Cardinality(Alive) <= 1

(* C13: a start() that finds the service running returns success, makes no *)
(* call on the hardware and creates no thread; and a start() that returns  *)
(* right after a start() that succeeded returns success too and leaves     *)
(* exactly one thread inside _capture_loop.                                *)
C13_StartWhenRunning ==
    [][\A c \in Callers, hw_ok \in BOOLEAN :
          Start(c, hw_ok) =>
             /\ is_running =>
                   /\ cam_call'.ok
                   /\ cam_call'.hardware = <<>>
                   /\ threads' = threads
                   /\ _capture_thread' = _capture_thread
             /\ (cam_call.op = "start" /\ cam_call.ok) =>
                   /\ cam_call'.ok
                   /\ Cardinality(Alive') = 1]_vars

(* The caller is inside cleanup(), holds the lock, and waits in stop() for *)
(* that same lock: no step of any thread releases it.                      *)
WaitsForOwnLock(c) == caller[c] = "cleanup" /\ _lock = c

(* What cleanup() is to reset *)
Released ==
    /\ ~is_running
    /\ camera = "None"
    /\ _latest_frame = <<>>
    /\ _frame_counter = 0

(* C14: cleanup() returns in whatever state it is called, the running      *)
(* state included; when it has returned the service is not running, holds  *)
(* no camera handle, has an empty slot and a counter of 0 (the device      *)
(* letting itself be closed); and a cleanup() right after a cleanup()      *)
(* returns too and changes nothing.                                        *)
C14_CleanupReturnsAndResets ==
    [][/\ \A c \in Callers : ~WaitsForOwnLock(c)'
       /\ \A c \in Callers, close_ok \in BOOLEAN :
             (Cleanup(c, close_ok) /\ (camera = "None" \/ close_ok)) =>
                /\ Released'
                /\ (cam_call.op = "cleanup" /\ cam_call.ok) =>
                      UNCHANGED <<camera, is_running, _capture_thread,
                                  _latest_frame, _frame_counter, threads>>]_vars

(* stop() has returned and no start() has set the flag since. *)
Stopped == ~is_running /\ \A c \in Callers : caller[c] # "stop"

(* Thread t reads the camera (line 170) or replaces the slot (line 200). *)
Ticks(t) ==
    \/ threads[t].pc = "capture" /\ threads'[t].pc # "capture"
    \/ threads[t].pc = "store" /\ threads'[t].pc # "store"

(* C15: stop() on a running service clears the flag, waits for the capture *)
(* thread and then stops the hardware: when it stops the hardware no       *)
(* thread is inside _capture_loop, and once it has returned no tick reads  *)
(* the camera or replaces the slot.  stop() on a service that is not       *)
(* running changes nothing.                                                *)
C15_StopEndsTheLoopFirst ==
    [][/\ \A c \in Callers :
             StopBegin(c) =>
                IF is_running THEN ~is_running'
                ELSE UNCHANGED <<camera, is_running, _capture_thread, _lock,
                                 _latest_frame, _frame_counter, threads>>
       /\ \A c \in Callers : StopFinish(c) => Alive' = {}
       /\ Stopped => \A t \in Threads : ~Ticks(t)]_vars

(* C16: get_latest_frame() returns what the slot holds, None when no frame *)
(* was stored, and a call of it is never left waiting: in no reachable     *)
(* state is a caller inside get_latest_frame() while the lock it needs is  *)
(* held by a thread that never releases it.                                *)
C16_GetLatestFrameReturns ==
    [][/\ \A c \in Callers :
             GetLatestFrame(c) => cam_call'.frame = _latest_frame
       /\ \A c \in Callers :
             caller'[c] = "get_latest_frame" =>
                \A k \in Callers : ~WaitsForOwnLock(k)']_vars

(* Thread t builds a frame: it reads _frame_counter at line 181. *)
ReadsCounter(t) == threads[t].pc = "capture" /\ threads'[t].pc = "store"

(* C17: the slot and the frame counter are read and written under the      *)
(* lock only: no step reads or changes either of them while another thread *)
(* holds the lock, and the frame a tick stores is the frame that tick      *)
(* built.                                                                  *)
C17_SlotAndCounterUnderLock ==
    [][/\ (\E t \in Threads : ReadsCounter(t)) => _lock = "None"
       /\ (_latest_frame' # _latest_frame \/ _frame_counter' # _frame_counter)
             => _lock = "None"
       /\ \A c \in Callers :
             GetLatestFrame(c) => (_lock = "None" /\ cam_call'.frame = _latest_frame)
       /\ \A t \in Threads :
             StoreFrame(t) => _latest_frame' = Frame(threads[t].frame_number)]_vars

Uninitialized == camera = "None" /\ ~is_running

(* C18, as the claim states it: CameraService.start() on a service that    *)
(* was not initialized invokes initialize() itself, so opens the device,   *)
(* and does not return failure with the device untouched.                  *)
C18_StartInitializesItself ==
    [][\A c \in Lifecycle, hw_ok \in BOOLEAN :
          (Uninitialized /\ Start(c, hw_ok)) =>
              (cam_call'.op = "start" /\ cam_call'.hardware # <<>>)]_vars

(* C18, amended: it is CameraManager.start() that invokes initialize() on  *)
(* a service that was not initialized and, if that succeeds, goes on to    *)
(* CameraService.start(), which starts the hardware and launches the       *)
(* capture loop; CameraService.start() itself returns failure on such a    *)
(* service and leaves it as it was.                                        *)
C18_ManagerStartInitializes ==
    [][/\ \A c \in Lifecycle, open_ok \in BOOLEAN, configure_ok \in BOOLEAN :
             (Uninitialized /\ ManagerStartBegin(c, open_ok, configure_ok)) =>
                /\ cam_call'.hardware # <<>>
                /\ IF open_ok /\ configure_ok
                   THEN /\ cam_call'.op = "CameraManager.start/initialize"
                        /\ camera' # "None"
                        /\ caller'[c] = "CameraManager.start"
                   ELSE /\ cam_call'.op = "CameraManager.start"
                        /\ ~cam_call'.ok
       /\ \A c \in Lifecycle, hw_ok \in BOOLEAN :
             (camera # "None" /\ ~is_running /\ ManagerStartFinish(c, hw_ok)) =>
                /\ cam_call'.hardware = <<"start">>
                /\ cam_call'.ok = hw_ok
                /\ hw_ok => (is_running' /\ is_alive(_capture_thread)')
       /\ \A c \in Lifecycle, hw_ok \in BOOLEAN :
             (Uninitialized /\ Start(c, hw_ok)) =>
                /\ cam_call'.op = "start"
                /\ ~cam_call'.ok
                /\ cam_call'.hardware = <<>>
                /\ UNCHANGED <<camera, is_running, threads>>]_vars

(* CameraManager.start() has initialized the service itself and is about   *)
(* to call CameraService.start().                                          *)
C18_Witness ==
    \E c \in Callers :
        /\ caller[c] = "CameraManager.start"
        /\ cam_call.op = "CameraManager.start/initialize"
        /\ camera = "configured"

(* C19: initialize() on a service that holds the camera handle returns     *)
(* success, makes no call on the device and changes nothing; initialize()  *)
(* that cannot open the device returns failure after that one attempt and  *)
(* leaves the service without a handle.                                    *)
C19_InitializeIdempotent ==
    [][\A c \in Lifecycle, open_ok \in BOOLEAN, configure_ok \in BOOLEAN :
          (cam_call'.op = "initialize" /\ Initialize(c, open_ok, configure_ok)) =>
             /\ camera # "None" =>
                   /\ cam_call'.ok
                   /\ cam_call'.hardware = <<>>
                   /\ UNCHANGED <<camera, is_running, _capture_thread, _lock,
                                   _latest_frame, _frame_counter, threads>>
             /\ (camera = "None" /\ ~open_ok) =>
                   /\ ~cam_call'.ok
                   /\ cam_call'.hardware = <<"Picamera2">>
                   /\ camera' = "None"]_vars

(* An initialize() has returned success without a call on the device: the  *)
(* handle was held already.                                                *)
C19_Witness ==
    /\ cam_call.op = "initialize"
    /\ cam_call.ok
    /\ cam_call.hardware = <<>>
    /\ camera # "None"

(* C20: a capture tick that raises leaves the slot and the frame counter   *)
(* as they were and does not end the loop: the thread goes through the     *)
(* handler's sleep back to the loop test, and from the loop test it starts *)
(* another tick if the running flag is set and ends only if it is not.     *)
C20_RaisingTickKeepsLoop ==
    [][\A t \in Threads :
          /\ (threads[t].pc = "capture" /\ CaptureFrame(t, TRUE)) =>
                /\ threads'[t].pc = "except"
                /\ UNCHANGED <<_latest_frame, _frame_counter, is_running>>
          /\ threads[t].pc = "except" => threads'[t].pc \in {"except", "while"}
          /\ (threads[t].pc = "while" /\ threads'[t].pc # "while") =>
                threads'[t].pc = IF is_running THEN "capture" ELSE "dead"]_vars

(* A tick has raised after a frame was stored, and the service is running. *)
C20_Witness ==
    \E t \in Threads :
        /\ threads[t].pc = "except"
        /\ is_running
        /\ _latest_frame # <<>>

----------------------------------------------------------------------------
(* Properties of the detection service *)

(* C21: the capture loop and the detection loop end only at a step taken   *)
(* with their running flag cleared; a tick that raised (in the capture,    *)
(* the detector, the tracker or the sink) leaves the thread in its loop    *)
(* while the flag is set.                                                  *)
C21_LoopsEndOnlyWhenStopped ==
    [][/\ (detector.pc # "dead" /\ detector'.pc = "dead") => ~_running
       /\ \A t \in Threads :
             (threads[t].pc # "dead" /\ threads'[t].pc = "dead") => ~is_running
       /\ (detector'.raised # "none" /\ _running) => detector'.pc # "dead"]_vars

(* A tick of the detection loop raised in the tracker, the capture loop is *)
(* in the handler of a tick that raised, and both flags are set.           *)
C21_Witness ==
    /\ detector.pc = "except"
    /\ detector.raised = "tracker"
    /\ _running
    /\ is_running
    /\ \E t \in Threads : threads[t].pc = "except"

(* The step is a tick's call on the tracker. *)
DetTicks == detector.pc = "prediction" /\ detector'.pc # "prediction"

(* C22: a tick made with the camera service active and a frame in the     *)
(* slot, in which a tracked class is not detected and has not been seen    *)
(* for timeout_seconds or more, adds a LEAVING_AREA row for the class: the *)
(* step by which a class that is no longer detected comes to leave.        *)
C22_LeavingEventuallyEmitted ==
    [][\A c \in Classes :
         (DetTicks /\ is_active /\ _latest_frame # <<>> /\ Due(c))
         => RowsOf(NewRows, LEAVING_AREA, c) # {}]_vars

(* The step is the detection loop finding the camera service not active at *)
(* line 116, or the slot empty at line 124.                                *)
DetSkips ==
    /\ detector' # detector
    /\ \/ detector.pc = "is_running" /\ ~is_active
       \/ detector.pc = "get_latest_frame" /\ _latest_frame = <<>>

(* C23: a tick that finds the camera service not active, or no frame in    *)
(* the slot, goes to wait a full detection interval and from there back to *)
(* the loop test: it does not reach the detector, and the tracker's state  *)
(* and the sink's rows stay as they were.                                  *)
C23_TickWithoutFrameIsSkipped ==
    [][/\ DetSkips => /\ detector'.pc = "sleep(detection_interval)"
                      /\ UNCHANGED tracker_vars
       /\ (detector.pc = "sleep(detection_interval)" /\ detector' # detector)
          => /\ detector'.pc = "while"
             /\ UNCHANGED tracker_vars]_vars

(* The detection loop waits a full interval, the camera service having     *)
(* been stopped with a frame in its slot.                                  *)
C23_Witness ==
    /\ detector.pc = "sleep(detection_interval)"
    /\ _running
    /\ ~is_active
    /\ _latest_frame # <<>>

(* C24: a tick in which the detector raises leaves the tracked classes and *)
(* the sink's rows as they were: it adds no ENTERING_AREA and no           *)
(* LEAVING_AREA row, and the loop goes on.                                 *)
C24_DetectorFailureSkipsTick ==
    [][(DetTicks /\ detector'.raised = "detector")
       => /\ current_objects' = current_objects
          /\ NewRows = <<>>
          /\ detector'.pc # "dead"]_vars

(* The step is a call of DetectionService.start(). *)
DetStarts ==
    \E c \in Lifecycle, open_ok \in BOOLEAN, configure_ok \in BOOLEAN,
       hw_ok \in BOOLEAN : DetStart(c, open_ok, configure_ok, hw_ok)

(* C25: DetectionService.start() on a running service returns success and  *)
(* launches nothing.  Otherwise it launches the detection loop exactly     *)
(* when it returns success, and then the camera service is active, having  *)
(* been started by the call unless it was active already; when the camera  *)
(* service cannot be started it returns failure, the running flag stays    *)
(* false and there is no detection thread.                                 *)
C25_StartNeedsTheCamera ==
    [][DetStarts
       => /\ det_call'.op = "start"
          /\ _running
             => /\ det_call'.ok
                /\ ~det_call'.launched
                /\ UNCHANGED <<_running, _detection_thread, detector>>
                /\ UNCHANGED camera_vars
          /\ ~_running
             => /\ det_call'.launched = det_call'.ok
                /\ det_call'.ok = is_active'
                /\ is_active => UNCHANGED camera_vars
                /\ det_call'.ok
                   => /\ _running'
                      /\ _detection_thread' # "None"
                      /\ detector.pc = "dead"
                      /\ detector'.pc = "while"
                /\ ~det_call'.ok
                   => /\ ~_running'
                      /\ UNCHANGED <<_detection_thread, detector>>
                      /\ detector.pc = "dead"]_vars

(* start() has returned failure, the camera service having failed to       *)
(* start: the detection service is not running and has no thread.          *)
C25_Witness ==
    /\ det_call.op = "start"
    /\ ~det_call.ok
    /\ cam_call.op = "CameraManager.start"
    /\ ~cam_call.ok
    /\ ~_running
    /\ detector.pc = "dead"
    /\ ~is_active

(* The step is one of DetectionService.stop(), called by                   *)
(* stop_detection_service().                                               *)
DetStops == \E c \in Lifecycle : DetStopBegin(c) \/ DetStopFinish(c)

(* C26: no step of DetectionService.stop() changes the camera service: its *)
(* running flag, capture threads, handle, lock, frame slot and frame       *)
(* counter are as before, and so is what is_active() returns.              *)
C26_StopLeavesTheCamera ==
    [][DetStops
       => /\ UNCHANGED <<camera, is_running, _capture_thread, threads, _lock,
                         _latest_frame, _frame_counter>>
          /\ is_active' = is_active]_vars

(* stop() has cleared the flag and the detection loop has ended, with the  *)
(* camera service active and a frame in its slot.                          *)
C26_Witness ==
    /\ caller["main"] = "DetectionService.stop"
    /\ ~_running
    /\ detector.pc = "dead"
    /\ is_active
    /\ _latest_frame # <<>>

----------------------------------------------------------------------------
(* Properties of the streaming service *)

(* C27: a viewer's generator stores to the viewer counter at line 80 once, *)
(* when its iteration starts, and at line 110 once, when it ends, however  *)
(* its loop ended: before it starts it has done neither, while it runs it  *)
(* has done the first only, and it is over only after both.                *)
C27_CountedOnceEachWay ==
    \A v \in Viewers :
        LET w == viewers[v] IN
        /\ w.pc \in {"none", "created", "closed", "+="}
           => w.incs = 0 /\ w.decs = 0
        /\ w.pc \in {"while", "get_latest_frame", "yield", "finally", "-="}
           => w.incs = 1 /\ w.decs = 0
        /\ w.pc = "done"
           => /\ w.incs = 1 /\ w.decs = 1
              /\ w.ended \in {"deactivated", "inactive", "exception", "closed"}
        /\ w.ended # "no" => w.pc \in {"finally", "-=", "done"}

(* A viewer is over whose loop was broken by an exception of the encoder. *)
C27_Witness ==
    \E v \in Viewers :
        /\ viewers[v].pc = "done"
        /\ viewers[v].ended = "exception"
        /\ viewers[v].incs = 1
        /\ viewers[v].decs = 1

(* C28: with viewers starting and ending on their own threads,             *)
(* get_stream_count(), which returns active_streams, is the number of      *)
(* generators that have started iterating and not yet torn down; it is     *)
(* never negative, and 0 once every viewer is over.                        *)
C28_CountIsTheViewersStreaming ==
    /\ active_streams = Cardinality(Streaming)
    /\ active_streams >= 0
    /\ (\A v \in Viewers : viewers[v].pc \in {"none", "closed", "done"})
       => active_streams = 0

(* C29: a viewer that is streaming while the camera service is not active  *)
(* comes to its end, decrement included.                                   *)
C29_InactiveCameraEndsTheStream ==
    \A v \in {"viewer-1"} :
        (v \in Streaming /\ ~is_active) ~> (viewers[v].pc = "done")

(* C29, amended: a viewer that is streaming while the camera service is    *)
(* not active comes to its end, decrement included, unless the camera      *)
(* service is started again.                                               *)
C29_InactiveCameraEndsTheStreamUnlessRestarted ==
    \A v \in {"viewer-1"} :
        (v \in Streaming /\ ~is_active)
        ~> (viewers[v].pc = "done" \/ is_active)

(* A viewer is over whose loop test found the camera service not active. *)
C29_Witness ==
    /\ viewers["viewer-1"].pc = "done"
    /\ viewers["viewer-1"].ended = "inactive"
    /\ ~is_active
    /\ active_streams = 0

(* C30: a viewer that was streaming when stop_streaming() was called       *)
(* leaves its loop at its next loop test, whatever was called between the  *)
(* two: the deactivation is what ends it.                                  *)
C30_DeactivationEndsEveryViewer ==
    [][\A v \in Viewers :
         (/\ viewers[v].deactivated
          /\ viewers[v].pc = "while"
          /\ viewers'[v].pc # "while")
         => viewers'[v].pc = "finally"]_vars

(* The step is a call of stop_streaming(). *)
StopStreams == \E c \in Lifecycle : StopStreaming(c)

(* C31: stop_streaming() clears the streaming flag and changes nothing of  *)
(* the camera service: its running flag, capture threads, handle, lock,    *)
(* frame slot and frame counter are as before, so is_active() and          *)
(* get_latest_frame() answer a consumer as they did; the viewer counter    *)
(* and the detection service are as before too.                            *)
C31_StopStreamingOnlyClearsTheFlag ==
    [][StopStreams
       => /\ ~is_streaming_active'
          /\ UNCHANGED <<camera, is_running, _capture_thread, threads, _lock,
                         _latest_frame, _frame_counter>>
          /\ is_active' = is_active
          /\ UNCHANGED active_streams
          /\ \A v \in Viewers : viewers'[v].pc = viewers[v].pc
          /\ UNCHANGED <<detection_vars, tracker_vars>>]_vars

(* stop_streaming() has returned with the camera service active and a      *)
(* frame in its slot.                                                      *)
C31_Witness ==
    /\ stream_call.op = "stop_streaming"
    /\ ~is_streaming_active
    /\ is_active
    /\ _latest_frame # <<>>

(* The step is a call of start_streaming(). *)
StartStreams ==
    \E c \in Lifecycle, open_ok \in BOOLEAN, configure_ok \in BOOLEAN,
       hw_ok \in BOOLEAN : StartStreaming(c, open_ok, configure_ok, hw_ok)

----------------------------------------------------------------------------
(* The wire format, read back from the bytes *)

(* A CRLF starts at position i of b. *)
CRLFAt(b, i) == i >= 1 /\ i + 1 <= Len(b) /\ b[i] = 13 /\ b[i + 1] = 10

(* The position of the first CRLF of b at or after position from, 0 if     *)
(* there is none.                                                          *)
FirstCRLF(b, from) ==
    LET at == {i \in from..Len(b) : CRLFAt(b, i)}
    IN IF at = {} THEN 0 ELSE CHOOSE i \in at : \A j \in at : i <= j

(* The number a sequence of decimal digits stands for. *)
RECURSIVE Number(_)
Number(digits) ==
    IF digits = <<>> THEN 0
    ELSE 10 * Number(SubSeq(digits, 1, Len(digits) - 1))
         + (digits[Len(digits)] - 48)

(* b is one part of the stream carrying image: three header lines, an      *)
(* empty line, as many bytes as the third line says, and a CRLF.           *)
IsPartOf(b, image) ==
    LET boundary == <<45, 45, 102, 114, 97, 109, 101>>
        content_type == <<67, 111, 110, 116, 101, 110, 116, 45, 84, 121, 112, 101, 58, 32, 105, 109, 97, 103, 101, 47, 106, 112, 101, 103>>
        content_length == <<67, 111, 110, 116, 101, 110, 116, 45, 76, 101, 110, 103, 116, 104, 58, 32>>
        e1 == FirstCRLF(b, 1)
        e2 == FirstCRLF(b, e1 + 2)
        e3 == FirstCRLF(b, e2 + 2)
        line3 == SubSeq(b, e2 + 2, e3 - 1)
        digits == SubSeq(line3, Len(content_length) + 1, Len(line3))
        n == Number(digits)
        body == e3 + 4
    IN /\ e1 > 0 /\ SubSeq(b, 1, e1 - 1) = boundary
       /\ e2 > 0 /\ SubSeq(b, e1 + 2, e2 - 1) = content_type
       /\ e3 > 0 /\ SubSeq(line3, 1, Len(content_length)) = content_length
       /\ digits # <<>>
       /\ \A i \in DOMAIN digits : digits[i] \in 48..57
       /\ Len(digits) > 1 => digits[1] # 48
       /\ CRLFAt(b, e3 + 2)
       /\ n = Len(image)
       /\ Len(b) = body + n + 1
       /\ SubSeq(b, body, body + n - 1) = image
       /\ CRLFAt(b, body + n)

(* C33: the chunk made of an encoded image is the line --frame, the line   *)
(* Content-Type: image/jpeg, the line Content-Length: n with n the number  *)
(* of bytes of the image in decimal, an empty line, the n bytes of the     *)
(* image and a CRLF, every line ending in CRLF.                            *)
C33_ChunkIsOnePart ==
    chunk # <<>> => IsPartOf(chunk, frame_jpeg)

(* A chunk was made of an image of ten bytes or more that holds a CRLF. *)
C33_Witness ==
    /\ chunk # <<>>
    /\ Len(frame_jpeg) >= 10
    /\ FirstCRLF(frame_jpeg, 1) > 0

----------------------------------------------------------------------------
(* Further properties of the camera service, the tracker and the services *)

(* A capture thread publishes the frame of its tick. *)
Publishes == \E t \in Threads : StoreFrame(t)

(* C34: the frame numbers of the frames published to the slot within one   *)
(* service lifetime are strictly increasing in publication order: a frame  *)
(* that replaces another in the slot carries a greater number.             *)
C34_FrameNumbersIncrease ==
    [][Publishes /\ _latest_frame # <<>>
       => _latest_frame'[1].frame_number > _latest_frame[1].frame_number]_vars

(* C35: a process_detections call whose batch holds a class that is        *)
(* tracked adds no row and returns no event for the class, no LEAVING_AREA *)
(* in particular, however long ago the class was last seen, and leaves it  *)
(* tracked as seen at the call's time.                                     *)
C35_SeenAgainNeverLeaves ==
    [][call'.op = "process_detections"
       => \A c \in call'.detected \cap Keys(current_objects) :
             /\ RowsAbout(NewRows, c) = {}
             /\ RowsAbout(call'.returned, c) = {}
             /\ c \in Keys(current_objects')
             /\ Get(current_objects', c) = now']_vars

(* The tick of the detection loop for an empty list of detections. *)
ChecksForLeaving(t, failAt) == CheckForLeavingObjects(t, failAt)

(* C37: _check_for_leaving_objects(now) without a detected set does what   *)
(* process_detections([]) does at the same time from the same tracker      *)
(* state, with the same db.log_event call failing if any: the same rows in *)
(* the sink in the same order, the same current_objects, the same events   *)
(* returned or the same exception.                                         *)
C37_LeavingCheckIsTheEmptyBatch ==
    [][\A t \in {now'} :
         \A failAt \in SinkCalls(_check_for_leaving_objects(Handler, t, {}, 0)) :
            ChecksForLeaving(t, failAt)
            => LET s == process_detections(Handler, <<>>, t, <<>>, failAt)
               IN /\ event_log' = s.event_log
                  /\ current_objects' = s.current_objects
                  /\ call'.raised = s.raised
                  /\ call'.sink_failed = s.sink_failed
                  /\ call'.returned = (IF s.raised THEN <<>> ELSE s.events_generated)]_vars

(* _check_for_leaving_objects returned LEAVING_AREA events for two classes *)
(* at once.                                                                *)
C37_Witness ==
    /\ call.op = "_check_for_leaving_objects"
    /\ Len(call.returned) = 2

(* The event types of one class alternate, ENTERING_AREA first. *)
Alternates(types) ==
    \A i \in DOMAIN types :
        types[i] = (IF i % 2 = 1 THEN ENTERING_AREA ELSE LEAVING_AREA)

(* C38: for every class the rows the sink holds alternate, beginning with  *)
(* ENTERING_AREA: no two LEAVING_AREA rows without an ENTERING_AREA row    *)
(* between them and no LEAVING_AREA row before the first ENTERING_AREA.    *)
C38_EventsAlternate ==
    \A c \in Classes : Alternates(TypesOf(event_log, c))

(* A lifecycle caller calls initialize(). *)
Initializes ==
    \E c \in Lifecycle, open_ok, configure_ok \in BOOLEAN :
        Initialize(c, open_ok, configure_ok)

(* A lifecycle caller calls start(). *)
Starts == \E c \in Lifecycle, hw_ok \in BOOLEAN : Start(c, hw_ok)

(* C39: an initialize() that returns False leaves the camera handle None,  *)
(* so that get_status() reports initialized = false, and a start() or      *)
(* initialize() after it finds no camera rather than going on with a       *)
(* device that was never configured.                                       *)
C39_FailedInitializeLeavesNoCamera ==
    [][/\ (Initializes /\ ~cam_call'.ok) => camera' = "None"
       /\ (Starts /\ cam_call'.ok) => camera = "configured"
       /\ (Initializes /\ cam_call'.ok) => camera' = "configured"]_vars

(* A request handler calls create_stream_response(). *)
CreatesStream == \E c \in Lifecycle, v \in Viewers : CreateStreamResponse(c, v)

(* C40: create_stream_response() called while is_streaming_active is not   *)
(* set raises and starts no viewer: active_streams and every viewer are as *)
(* they were and nothing of the camera service is read or written.         *)
C40_NoStreamWhileInactive ==
    [][(CreatesStream /\ ~is_streaming_active)
       => /\ stream_call' = [op |-> "create_stream_response", ok |-> FALSE]
          /\ UNCHANGED <<active_streams, viewers, is_streaming_active>>
          /\ UNCHANGED camera_vars]_vars

(* create_stream_response() raised while the camera service was active and *)
(* held a frame, with no viewer streaming.                                 *)
C40_Witness ==
    /\ stream_call = [op |-> "create_stream_response", ok |-> FALSE]
    /\ ~is_streaming_active
    /\ is_active
    /\ _latest_frame # <<>>
    /\ active_streams = 0
    /\ \A v \in Viewers : viewers[v].pc = "none"

(* A detection thread is inside process_detections or                      *)
(* _check_for_leaving_objects.                                             *)
InTracker(th) == th.pc = "tracker"

(* C36: at most one thread is inside process_detections or                 *)
(* _check_for_leaving_objects at any time, whatever start(), stop() with a *)
(* join that may time out, stop_detection_service() and                    *)
(* start_detection_service() have been called.                             *)
C36_OneThreadInTheTracker ==
    ~(InTracker(detector) /\ InTracker(leaked))

====
